---- MODULE Spec2Model ----
(***************************************************************************)
(* Model of source/WebApp/components/app-code-edit-stable.ts: the          *)
(* execution-flow renderer (renderExecutionFlow and its helpers) and the   *)
(* editor binding (mounted / watchers / beforeDestroy).                    *)
(*                                                                         *)
(* Encoding of JavaScript values:                                          *)
(*   - a string is a sequence of characters; CR and LF stand for the       *)
(*     carriage return and line feed characters, BS for the backslash;     *)
(*   - a value of type T|null|undefined is a sequence of length at most    *)
(*     one: <<>> is null/undefined, <<v>> is the value v;                   *)
(*   - a FlowStep|number is a record; obj = FALSE is a bare line number    *)
(*     (its other fields are then absent in JavaScript and read as         *)
(*     undefined).                                                         *)
(***************************************************************************)
EXTENDS Integers, Sequences, FiniteSets, Bags, TLC

VARIABLES
    executionFlow,  \* executionFlow prop: <<>> (undefined) or <<step sequence>>
    rendered,       \* FALSE while the executionFlow watcher has a run pending
    jumpArrows,     \* the editor's jump-arrow layer (last argument of cm.setJumpArrows)
    bookmarks,      \* the `bookmarks` array of mounted(): tracked TextMarkers
    cmBookmarks,    \* bag of bookmarks currently present in the CodeMirror document
    cmLog,          \* editor calls made by the last run of renderExecutionFlow, in order
    mountPc,        \* mounted(): "nextTick" (awaiting Vue.nextTick), "done", "failed"
    destroyed,      \* TRUE once the beforeDestroy hook has run
    initialCached,  \* prop
    initialText,    \* prop
    serviceUrl,     \* prop
    language,       \* prop
    serverOptions,  \* prop
    highlightedRange, \* prop: <<>> (undefined) or <<range>>
    initialConnectionRequested, \* data: <<>> (undefined) or <<boolean>>
    options,        \* the `options` object of mounted(): <<>> before it is built
    instance,       \* data: index into `instances` of this.instance, 0 when undefined
    instances,      \* every MirrorSharp instance created so far, in creation order
    editorText,     \* textarea value / editor text last set by the component
    currentMarker,  \* the `currentMarker` of mounted(): <<>> (null) or <<marker>>
    cmMarks,        \* bag of highlight markers present in the CodeMirror document
    wrapperAttached, \* TRUE while the CodeMirror wrapper element is in the document
    teardownLog,    \* calls made by beforeDestroy, in order
    lifecycleLog,   \* history: mirrorsharp(...) and instance.destroy(...) calls, in order
    triggered       \* history: a text-change event or a language/serverOptions
                    \* change has been handled

flowVars == <<executionFlow, rendered, jumpArrows, bookmarks, cmBookmarks, cmLog>>

propVars == <<initialCached, initialText, serviceUrl, language, serverOptions,
              highlightedRange>>

connVars == <<initialConnectionRequested, options, instance, instances, lifecycleLog,
              triggered>>

markVars == <<currentMarker, cmMarks>>

bindingVars == <<mountPc, destroyed, initialCached, initialText, serviceUrl, language,
                 serverOptions, highlightedRange, initialConnectionRequested, options,
                 instance, instances, editorText, currentMarker, cmMarks, wrapperAttached,
                 teardownLog, lifecycleLog, triggered>>

vars == <<executionFlow, rendered, jumpArrows, bookmarks, cmBookmarks, cmLog,
          mountPc, destroyed, initialCached, initialText, serviceUrl, language,
          serverOptions, highlightedRange, initialConnectionRequested, options,
          instance, instances, editorText, currentMarker, cmMarks, wrapperAttached,
          teardownLog, lifecycleLog, triggered>>

----------------------------------------------------------------------------
(* Bounds *)

MaxSteps == 3       \* longest step sequence handed to renderExecutionFlow
MaxLine == 4        \* largest 1-based line number in the arrow inputs
MaxNoteLine == 2    \* largest 1-based line number in the annotation inputs
MaxFlowLen == 2     \* longest step sequence assigned to the executionFlow prop
MaxInstances == 3   \* MirrorSharp instances created in one run of the component

----------------------------------------------------------------------------
(* JavaScript values *)

CR == "CR"
LF == "LF"
BS == "\\"

None == <<>>
Some(v) == <<v>>

\* mutant: a null test where truthiness is meant
Truthy_NotNull(v) == v # None

\* JavaScript truthiness of a string|null|undefined
Truthy(v) == v # None /\ v[1] # <<>>

\* a bare line number appearing in the step array
BareStep(l) ==
    [obj |-> FALSE, line |-> l, skipped |-> FALSE, exception |-> None, notes |-> None]

\* a FlowStep object
FlowStep(l, s, e, n) ==
    [obj |-> TRUE, line |-> l, skipped |-> s, exception |-> e, notes |-> n]

\* mutant: the skipped test is missing
StepSkipped_Never(step) == FALSE

\* (step as FlowStep).skipped : undefined on a number
StepSkipped(step) == step.obj /\ step.skipped

SeqsUpTo(S, n) == UNION {[1..k -> S] : k \in 0..n}

----------------------------------------------------------------------------
(* renderExecutionFlow: jump arrows *)

JumpArrow(from, to, thr) == [fromLine |-> from, toLine |-> to, throw |-> thr]

\* mutant: the 1-based line is not converted
FromLineOf_OneBased(lastLineNumber) ==
    IF lastLineNumber = None THEN None ELSE Some(lastLineNumber[1])

\* lastLineNumber! - 1 : undefined - 1 is NaN, kept as an absent value
FromLineOf(lastLineNumber) ==
    IF lastLineNumber = None THEN None ELSE Some(lastLineNumber[1] - 1)

StepLineNumber(step) == step.line

StepException(step) == IF step.obj THEN step.exception ELSE None

\* mutant: forward threshold of 1 instead of 2
Important_Delta1(lineNumber, lastLineNumber, lastException) ==
    \/ /\ lastLineNumber # None
       /\ \/ lineNumber < lastLineNumber[1]
          \/ lineNumber - lastLineNumber[1] > 1
    \/ Truthy(lastException)

Important(lineNumber, lastLineNumber, lastException) ==
    \/ /\ lastLineNumber # None
       /\ \/ lineNumber < lastLineNumber[1]
          \/ lineNumber - lastLineNumber[1] > 2
    \/ Truthy(lastException)

RECURSIVE ScanSteps(_, _, _, _, _)
ScanSteps(stepSeq, i, lastLineNumber, lastException, arrows) ==
    IF i > Len(stepSeq) THEN arrows
    ELSE LET step == stepSeq[i] IN
         IF StepSkipped(step)
         THEN ScanSteps(stepSeq, i + 1, lastLineNumber, lastException, arrows)
         ELSE LET lineNumber == StepLineNumber(step)
                  exception == StepException(step)
                  pushed == IF Important(lineNumber, lastLineNumber, lastException)
                            THEN Append(arrows,
                                        JumpArrow(FromLineOf(lastLineNumber),
                                                  Some(lineNumber - 1),
                                                  Truthy(lastException)))
                            ELSE arrows
              IN  ScanSteps(stepSeq, i + 1, Some(lineNumber), exception, pushed)

\* mutant: lastLineNumber starts at 0 instead of undefined
ComputeJumpArrows_ZeroInit(stepSeq) == ScanSteps(stepSeq, 1, Some(0), None, <<>>)

ComputeJumpArrows(stepSeq) == ScanSteps(stepSeq, 1, None, None, <<>>)

----------------------------------------------------------------------------
(* renderExecutionFlow: line-end annotations *)

\* String.prototype.replace(/c/g, replacement)
RECURSIVE ReplaceAll(_, _, _)
ReplaceAll(text, c, replacement) ==
    IF text = <<>> THEN <<>>
    ELSE (IF Head(text) = c THEN replacement ELSE <<Head(text)>>)
         \o ReplaceAll(Tail(text), c, replacement)

\* mutant: carriage returns are left alone
escapeNewLines_NoCR(text) == ReplaceAll(text, LF, <<BS, "n">>)

escapeNewLines(text) ==
    ReplaceAll(ReplaceAll(text, CR, <<BS, "r">>), LF, <<BS, "n">>)

RECURSIVE JoinParts(_)
JoinParts(parts) ==
    IF parts = <<>> THEN <<>>
    ELSE IF Len(parts) = 1 THEN parts[1]
    ELSE parts[1] \o <<";", " ">> \o JoinParts(Tail(parts))

RECURSIVE MapEscape(_)
MapEscape(parts) ==
    IF parts = <<>> THEN <<>>
    ELSE <<escapeNewLines(Head(parts))>> \o MapEscape(Tail(parts))

\* the widget is identified by its className suffix and its textContent
createFlowLineEndWidget(contents, kind) ==
    [kind |-> kind, text |-> JoinParts(MapEscape(contents))]

\* mutant: skipped steps are dropped from the annotations too
IsObjectStep_NotSkipped(step) == step.obj /\ ~step.skipped

\* steps.filter(s => typeof s === 'object')
IsObjectStep(step) == step.obj

DetailedSteps(stepSeq) == SelectSeq(stepSeq, IsObjectStep)

\* groupToMap(items, s => s.line): a Map, iterated in insertion order of its
\* keys, each key holding its items in encounter order
groupToMap(items) ==
    LET indices == [i \in 1..Len(items) |-> i]
        IsFirstOfKey(i) == \A j \in 1..(i - 1) : items[j].line # items[i].line
        firsts == SelectSeq(indices, IsFirstOfKey)
    IN  [k \in 1..Len(firsts) |->
            LET key == items[firsts[k]].line
                HasKey(item) == item.line = key
            IN  [key |-> key, values |-> SelectSeq(items, HasKey)]]

PartNames == <<"notes", "exception">>

StepPart(step, partName) == IF partName = "notes" THEN step.notes ELSE step.exception

\* details.map(s => s[partName]).filter(p => p)
RECURSIVE PartsOf(_, _)
PartsOf(details, partName) ==
    IF details = <<>> THEN <<>>
    ELSE LET p == StepPart(Head(details), partName)
         IN  (IF Truthy(p) THEN <<p[1]>> ELSE <<>>) \o PartsOf(Tail(details), partName)

\* cm.getLine(n).length for the document in the editor; the document has every
\* line a step names (the caller's input contract)
cmLineLength(cmLineNumber) == (cmLineNumber * 3) % 5

Bookmark(cmLineNumber, ch, widget) == [line |-> cmLineNumber, ch |-> ch, widget |-> widget]

RECURSIVE GroupBookmarks(_, _, _)
GroupBookmarks(lineNumber, details, p) ==
    IF p > Len(PartNames) THEN <<>>
    ELSE LET partName == PartNames[p]
             parts == PartsOf(details, partName)
             cmLineNumber == lineNumber - 1
             end == cmLineLength(cmLineNumber)
         IN  (IF Len(parts) = 0 THEN <<>>
              ELSE <<Bookmark(cmLineNumber, end, createFlowLineEndWidget(parts, partName))>>)
             \o GroupBookmarks(lineNumber, details, p + 1)

RECURSIVE AllGroupBookmarks(_)
AllGroupBookmarks(groups) ==
    IF groups = <<>> THEN <<>>
    ELSE GroupBookmarks(Head(groups).key, Head(groups).values, 1)
         \o AllGroupBookmarks(Tail(groups))

\* the bookmarks pushed by one run of renderExecutionFlow, in push order
ComputeBookmarks(stepSeq) ==
    IF Len(stepSeq) = 0 THEN <<>>
    ELSE AllGroupBookmarks(groupToMap(DetailedSteps(stepSeq)))

RECURSIVE SeqToBag(_)
SeqToBag(q) ==
    IF q = <<>> THEN EmptyBag ELSE SetToBag({Head(q)}) (+) SeqToBag(Tail(q))

\* mutant: an if where the while is meant
PopAndClear_Once(tracked) ==
    IF Len(tracked) > 0 THEN <<tracked[Len(tracked)]>> ELSE <<>>

\* while (bookmarks.length > 0) bookmarks.pop()!.clear();
\* the markers popped and cleared, in the order of the clear() calls
RECURSIVE PopAndClear(_)
PopAndClear(tracked) ==
    IF Len(tracked) > 0
    THEN <<tracked[Len(tracked)]>> \o PopAndClear(SubSeq(tracked, 1, Len(tracked) - 1))
    ELSE <<>>

LogOf(op, n) == [i \in 1..n |-> op]

\* steps ?? []
StepsOrEmpty(flow) == IF flow = None THEN <<>> ELSE flow[1]

\* mutant: the empty-input return comes before setJumpArrows
renderExecutionFlow_EarlyReturn(stepSeq) ==
    \E cleared \in {PopAndClear(bookmarks)}, pushed \in {ComputeBookmarks(stepSeq)} :
        /\ jumpArrows' = IF Len(stepSeq) = 0 THEN jumpArrows ELSE ComputeJumpArrows(stepSeq)
        /\ bookmarks' = SubSeq(bookmarks, 1, Len(bookmarks) - Len(cleared)) \o pushed
        /\ cmBookmarks' = (cmBookmarks (-) SeqToBag(cleared)) (+) SeqToBag(pushed)
        /\ cmLog' = LogOf("clear", Len(cleared))
                      \o (IF Len(stepSeq) = 0 THEN <<>> ELSE <<"setJumpArrows">>)
                      \o LogOf("setBookmark", Len(pushed))

\* renderExecutionFlow(steps, cm, bookmarks)
renderExecutionFlow(stepSeq) ==
    \E cleared \in {PopAndClear(bookmarks)}, pushed \in {ComputeBookmarks(stepSeq)} :
        /\ jumpArrows' = ComputeJumpArrows(stepSeq)
        /\ bookmarks' = SubSeq(bookmarks, 1, Len(bookmarks) - Len(cleared)) \o pushed
        /\ cmBookmarks' = (cmBookmarks (-) SeqToBag(cleared)) (+) SeqToBag(pushed)
        /\ cmLog' = LogOf("clear", Len(cleared)) \o <<"setJumpArrows">>
                      \o LogOf("setBookmark", Len(pushed))

\* this.$watch('executionFlow', steps => renderExecutionFlow(steps ?? [], ...))
ExecutionFlowWatcher ==
    /\ mountPc = "done" /\ ~destroyed
    /\ ~rendered
    /\ rendered' = TRUE
    /\ renderExecutionFlow(StepsOrEmpty(executionFlow))
    /\ UNCHANGED executionFlow
    /\ UNCHANGED bindingVars

\* the parent assigns a new value to the executionFlow prop; Vue runs the
\* watcher later, once, with the value the prop has by then
SetExecutionFlow(flow) ==
    /\ mountPc = "done" /\ ~destroyed
    /\ executionFlow' = flow
    /\ rendered' = FALSE
    /\ UNCHANGED <<jumpArrows, bookmarks, cmBookmarks, cmLog>>
    /\ UNCHANGED bindingVars

----------------------------------------------------------------------------
(* The editor binding: mounted(), its watchers, beforeDestroy() *)

Urls == {"wss://a", "wss://b"}

Languages == {"C#", "Visual Basic"}

ServerOptionsValues ==
    {[xOptimize |-> "release", xTarget |-> "C#"],
     [xOptimize |-> "debug", xTarget |-> "IL"]}

Texts == {"t1", "t2"}

\* a CodeMirror position, and a flat character offset
Pos(l, c) == [isPos |-> TRUE, line |-> l, ch |-> c, index |-> 0]
Offset(i) == [isPos |-> FALSE, line |-> 0, ch |-> 0, index |-> i]

Ranges ==
    {[start |-> Offset(1), end |-> Offset(6)],
     [start |-> Pos(1, 1), end |-> Offset(5)],
     [start |-> Pos(0, 0), end |-> Pos(2, 1)]}

\* cm.posFromIndex(index): lines are separated by one line-break character
RECURSIVE posFromIndexAt(_, _)
posFromIndexAt(index, cmLineNumber) ==
    IF index <= cmLineLength(cmLineNumber)
    THEN [line |-> cmLineNumber, ch |-> index]
    ELSE posFromIndexAt(index - cmLineLength(cmLineNumber) - 1, cmLineNumber + 1)

posFromIndex(index) == posFromIndexAt(index, 0)

\* typeof x === 'object' ? x : cm.posFromIndex(x)
ToPos(x) == IF x.isPos THEN [line |-> x.line, ch |-> x.ch] ELSE posFromIndex(x.index)

\* mirrorsharp(textarea, options): a new instance, connecting on creation
\* unless noInitialConnection is set
mirrorsharp(opts) ==
    [serviceUrl |-> opts.serviceUrl,
     language |-> opts.language,
     serverOptions |-> opts.initialServerOptions,
     noInitialConnection |-> opts.noInitialConnection,
     live |-> TRUE,
     connectCalls |-> 0,
     keepCodeMirror |-> FALSE]

\* instance.destroy({ keepCodeMirror })
DestroyInstance(insts, i, keep) ==
    [insts EXCEPT ![i].live = FALSE, ![i].keepCodeMirror = keep]

\* mutant: the flag is not set after connect()
connectIfInitialWasCached_FlagNotSet(insts) ==
    IF initialConnectionRequested = Some(TRUE)
    THEN /\ instances' = insts
         /\ initialConnectionRequested' = initialConnectionRequested
    ELSE /\ instances' = [insts EXCEPT ![instance].connectCalls = @ + 1]
         /\ initialConnectionRequested' = initialConnectionRequested

\* connectIfInitialWasCached(), applied to the instances as the caller left them
connectIfInitialWasCached(insts) ==
    IF initialConnectionRequested = Some(TRUE)
    THEN /\ instances' = insts
         /\ initialConnectionRequested' = initialConnectionRequested
    ELSE /\ instances' = [insts EXCEPT ![instance].connectCalls = @ + 1]
         /\ initialConnectionRequested' = Some(TRUE)

\* mutant: initialConnectionRequested starts false whatever initialCached is
MountedSetup_FlagStartsFalse(created) ==
    LET opts == [serviceUrl |-> serviceUrl,
                 language |-> language,
                 initialServerOptions |-> serverOptions,
                 noInitialConnection |-> initialCached]
    IN  /\ editorText' = initialText
        /\ initialConnectionRequested' = Some(FALSE)
        /\ options' = Some(opts)
        /\ IF created
           THEN /\ instances' = Append(instances, mirrorsharp(opts))
                /\ lifecycleLog' = Append(lifecycleLog, "mirrorsharp")
                /\ instance' = Len(instances) + 1
                /\ wrapperAttached' = TRUE
                /\ mountPc' = "done"
           ELSE /\ UNCHANGED <<instances, lifecycleLog, instance, wrapperAttached>>
                /\ mountPc' = "failed"
        /\ UNCHANGED <<destroyed, propVars, markVars, teardownLog, triggered, flowVars>>

\* the body of mounted() after `await Vue.nextTick()`, up to the creation of
\* the instance
MountedSetup(created) ==
    LET opts == [serviceUrl |-> serviceUrl,
                 language |-> language,
                 initialServerOptions |-> serverOptions,
                 noInitialConnection |-> initialCached]
    IN  /\ editorText' = initialText
        /\ initialConnectionRequested' = Some(~initialCached)
        /\ options' = Some(opts)
        /\ IF created
           THEN /\ instances' = Append(instances, mirrorsharp(opts))
                /\ lifecycleLog' = Append(lifecycleLog, "mirrorsharp")
                /\ instance' = Len(instances) + 1
                /\ wrapperAttached' = TRUE
                /\ mountPc' = "done"
           ELSE /\ UNCHANGED <<instances, lifecycleLog, instance, wrapperAttached>>
                /\ mountPc' = "failed"
        /\ UNCHANGED <<destroyed, propVars, markVars, teardownLog, triggered, flowVars>>

\* mounted() resumes while the component is alive
Mounted ==
    /\ mountPc = "nextTick"
    /\ ~destroyed
    /\ MountedSetup(TRUE)

\* mounted() resumes after beforeDestroy has run: the textarea has left the
\* document, and CodeMirror.fromTextArea either throws for want of a parent
\* node or builds the editor in the detached subtree
MountedAfterDestroy ==
    /\ mountPc = "nextTick"
    /\ destroyed
    /\ \E created \in BOOLEAN : MountedSetup(created)

Watching == mountPc = "done" /\ ~destroyed

\* on.textChange of the live instance ($emit notifications carry no state of
\* the component and are left out of every handler)
TextChange ==
    /\ instance # 0
    /\ instances[instance].live
    /\ connectIfInitialWasCached(instances)
    /\ triggered' = TRUE
    /\ UNCHANGED <<mountPc, destroyed, propVars, options, instance, editorText, markVars,
                   wrapperAttached, teardownLog, lifecycleLog, flowVars>>

\* this.$watch('initialText', v => this.instance.setText(v))
InitialTextChange(v) ==
    /\ Watching
    /\ v # initialText
    /\ initialText' = v
    /\ editorText' = v
    /\ UNCHANGED <<mountPc, destroyed, initialCached, serviceUrl, language, serverOptions,
                   highlightedRange, connVars, markVars, wrapperAttached, teardownLog,
                   flowVars>>

\* mutant: the language watcher forwards the value and leaves the deferred
\* connection alone
LanguageChange_NoConnect(l) ==
    /\ Watching
    /\ l # language
    /\ language' = l
    /\ options' = Some([options[1] EXCEPT !.language = l])
    /\ instances' = [instances EXCEPT ![instance].language = l]
    /\ triggered' = TRUE
    /\ UNCHANGED <<mountPc, destroyed, initialCached, initialText, serviceUrl,
                   serverOptions, highlightedRange, initialConnectionRequested, instance,
                   editorText, markVars, wrapperAttached, teardownLog, lifecycleLog,
                   flowVars>>

\* this.$watch('language', ...)
LanguageChange(l) ==
    /\ Watching
    /\ l # language
    /\ language' = l
    /\ options' = Some([options[1] EXCEPT !.language = l])
    /\ connectIfInitialWasCached([instances EXCEPT ![instance].language = l])
    /\ triggered' = TRUE
    /\ UNCHANGED <<mountPc, destroyed, initialCached, initialText, serviceUrl,
                   serverOptions, highlightedRange, instance, editorText, markVars,
                   wrapperAttached, teardownLog, lifecycleLog, flowVars>>

\* mutant: the new value reaches the instance and not the options object
ServerOptionsChange_OptionsStale(o) ==
    /\ Watching
    /\ o # serverOptions
    /\ serverOptions' = o
    /\ options' = options
    /\ connectIfInitialWasCached([instances EXCEPT ![instance].serverOptions = o])
    /\ triggered' = TRUE
    /\ UNCHANGED <<mountPc, destroyed, initialCached, initialText, serviceUrl, language,
                   highlightedRange, instance, editorText, markVars, wrapperAttached,
                   teardownLog, lifecycleLog, flowVars>>

\* this.$watch('serverOptions', ...)
ServerOptionsChange(o) ==
    /\ Watching
    /\ o # serverOptions
    /\ serverOptions' = o
    /\ options' = Some([options[1] EXCEPT !.initialServerOptions = o])
    /\ connectIfInitialWasCached([instances EXCEPT ![instance].serverOptions = o])
    /\ triggered' = TRUE
    /\ UNCHANGED <<mountPc, destroyed, initialCached, initialText, serviceUrl, language,
                   highlightedRange, instance, editorText, markVars, wrapperAttached,
                   teardownLog, lifecycleLog, flowVars>>

\* mutant: noInitialConnection keeps its mount-time value
recreate_KeepsNoInitialConnection(opts) ==
    /\ options' = Some(opts)
    /\ initialConnectionRequested' = Some(TRUE)
    /\ instances' = Append(DestroyInstance(instances, instance, TRUE), mirrorsharp(opts))
    /\ lifecycleLog' = lifecycleLog \o <<"destroy", "mirrorsharp">>
    /\ instance' = Len(instances) + 1

\* recreate(), with the options object as the caller left it
recreate(opts) ==
    LET newOptions == [opts EXCEPT !.noInitialConnection = FALSE]
    IN  /\ options' = Some(newOptions)
        /\ initialConnectionRequested' = Some(TRUE)
        /\ instances' = Append(DestroyInstance(instances, instance, TRUE),
                               mirrorsharp(newOptions))
        /\ lifecycleLog' = lifecycleLog \o <<"destroy", "mirrorsharp">>
        /\ instance' = Len(instances) + 1

\* this.$watch('serviceUrl', ...)
ServiceUrlChange(u) ==
    /\ Watching
    /\ u # serviceUrl
    /\ Len(instances) < MaxInstances
    /\ serviceUrl' = u
    /\ recreate([options[1] EXCEPT !.serviceUrl = u])
    /\ UNCHANGED <<mountPc, destroyed, initialCached, initialText, language, serverOptions,
                   highlightedRange, editorText, markVars, wrapperAttached, teardownLog,
                   triggered, flowVars>>

\* cm.markText(from, to, { className: 'highlighted' })
markText(from, to) == [from |-> from, to |-> to]

\* mutant: the previous marker is not cleared
HighlightedRangeChange_NoClear(range) ==
    /\ Watching
    /\ range # highlightedRange
    /\ highlightedRange' = range
    /\ IF range = None
       THEN /\ currentMarker' = None
            /\ cmMarks' = cmMarks
       ELSE LET marker == markText(ToPos(range[1].start), ToPos(range[1].end))
            IN  /\ currentMarker' = Some(marker)
                /\ cmMarks' = cmMarks (+) SetToBag({marker})
    /\ UNCHANGED <<mountPc, destroyed, initialCached, initialText, serviceUrl, language,
                   serverOptions, connVars, editorText, wrapperAttached, teardownLog, flowVars>>

\* this.$watch('highlightedRange', ...)
HighlightedRangeChange(range) ==
    /\ Watching
    /\ range # highlightedRange
    /\ highlightedRange' = range
    /\ LET cleared == IF currentMarker # None
                      THEN cmMarks (-) SetToBag({currentMarker[1]})
                      ELSE cmMarks
       IN  IF range = None
           THEN /\ currentMarker' = None
                /\ cmMarks' = cleared
           ELSE LET marker == markText(ToPos(range[1].start), ToPos(range[1].end))
                IN  /\ currentMarker' = Some(marker)
                    /\ cmMarks' = cleared (+) SetToBag({marker})
    /\ UNCHANGED <<mountPc, destroyed, initialCached, initialText, serviceUrl, language,
                   serverOptions, connVars, editorText, wrapperAttached, teardownLog, flowVars>>

\* mutant: the wrapper is removed before the instance is destroyed
BeforeDestroy_RemovesFirst ==
    /\ ~destroyed
    /\ destroyed' = TRUE
    /\ IF instance = 0
       THEN /\ teardownLog' = <<"TypeError">>
            /\ UNCHANGED <<instances, lifecycleLog, wrapperAttached>>
       ELSE /\ wrapperAttached' = FALSE
            /\ instances' = DestroyInstance(instances, instance, TRUE)
            /\ lifecycleLog' = Append(lifecycleLog, "destroy")
            /\ teardownLog' = <<"removeChild", "instance.destroy">>
    /\ UNCHANGED <<mountPc, propVars, initialConnectionRequested, options, instance,
                   triggered, editorText, markVars, flowVars>>

\* beforeDestroy(): this.instance is still undefined while mounted() awaits
\* Vue.nextTick, and getCodeMirror() on it throws
BeforeDestroy ==
    /\ ~destroyed
    /\ destroyed' = TRUE
    /\ IF instance = 0
       THEN /\ teardownLog' = <<"TypeError">>
            /\ UNCHANGED <<instances, lifecycleLog, wrapperAttached>>
       ELSE /\ instances' = DestroyInstance(instances, instance, TRUE)
            /\ lifecycleLog' = Append(lifecycleLog, "destroy")
            /\ wrapperAttached' = FALSE
            /\ teardownLog' = <<"instance.destroy", "removeChild">>
    /\ UNCHANGED <<mountPc, propVars, initialConnectionRequested, options, instance,
                   triggered, editorText, markVars, flowVars>>

Init ==
    /\ mountPc = "nextTick"
    /\ destroyed = FALSE
    /\ initialCached \in BOOLEAN
    /\ initialText = "t1"
    /\ serviceUrl = "wss://a"
    /\ language = "C#"
    /\ serverOptions = [xOptimize |-> "release", xTarget |-> "C#"]
    /\ highlightedRange = None
    /\ initialConnectionRequested = None
    /\ options = None
    /\ instance = 0
    /\ instances = <<>>
    /\ editorText = ""
    /\ currentMarker = None
    /\ cmMarks = EmptyBag
    /\ wrapperAttached = FALSE
    /\ teardownLog = <<>>
    /\ lifecycleLog = <<>>
    /\ triggered = FALSE
    /\ executionFlow = None
    /\ rendered = TRUE
    /\ jumpArrows = <<>>
    /\ bookmarks = <<>>
    /\ cmBookmarks = EmptyBag
    /\ cmLog = <<>>

\* step sequences assigned to the executionFlow prop of the bound component
BindingFlows ==
    {None, Some(<<FlowStep(2, FALSE, Some(<<"E">>), Some(<<"a">>)), BareStep(1)>>)}

Next ==
    \/ Mounted
    \/ MountedAfterDestroy
    \/ TextChange
    \/ \E v \in Texts : InitialTextChange(v)
    \/ \E l \in Languages : LanguageChange(l)
    \/ \E o \in ServerOptionsValues : ServerOptionsChange(o)
    \/ \E u \in Urls : ServiceUrlChange(u)
    \/ \E range \in {None} \cup {Some(r) : r \in Ranges} : HighlightedRangeChange(range)
    \/ \E flow \in BindingFlows : SetExecutionFlow(flow)
    \/ ExecutionFlowWatcher
    \/ BeforeDestroy

Spec == Init /\ [][Next]_vars

\* the binding as the flow specifications see it: mounted, not cached, idle
MountedIdle ==
    /\ mountPc = "done"
    /\ destroyed = FALSE
    /\ initialCached = FALSE
    /\ initialText = "t1"
    /\ serviceUrl = "wss://a"
    /\ language = "C#"
    /\ serverOptions = [xOptimize |-> "release", xTarget |-> "C#"]
    /\ highlightedRange = None
    /\ initialConnectionRequested = Some(TRUE)
    /\ options = Some([serviceUrl |-> "wss://a", language |-> "C#",
                       initialServerOptions |-> [xOptimize |-> "release", xTarget |-> "C#"],
                       noInitialConnection |-> FALSE])
    /\ instance = 1
    /\ instances = <<mirrorsharp(options[1])>>
    /\ editorText = "t1"
    /\ currentMarker = None
    /\ cmMarks = EmptyBag
    /\ wrapperAttached = TRUE
    /\ teardownLog = <<>>
    /\ lifecycleLog = <<"mirrorsharp">>
    /\ triggered = FALSE

----------------------------------------------------------------------------
(* Inputs *)

\* detailed-step shapes of the arrow inputs: <<skipped, exception>>
ArrowShapes ==
    {<<FALSE, Some(<<>>)>>, <<FALSE, Some(<<"E">>)>>,
     <<TRUE, None>>, <<TRUE, Some(<<"E">>)>>}

ArrowSteps ==
    {BareStep(l) : l \in 1..MaxLine}
    \cup {FlowStep(l, d[1], d[2], None) : l \in 1..MaxLine, d \in ArrowShapes}

\* detailed-step shapes of the annotation inputs: <<skipped, exception, notes>>
NoteShapes ==
    {<<FALSE, None, None>>,
     <<FALSE, None, Some(<<"a">>)>>,
     <<FALSE, Some(<<"E", CR>>), Some(<<"b", LF>>)>>,
     <<FALSE, Some(<<>>), Some(<<>>)>>,
     <<TRUE, Some(<<"X">>), Some(<<CR, LF, "s">>)>>}

NoteSteps ==
    {BareStep(l) : l \in 1..MaxNoteLine}
    \cup {FlowStep(l, d[1], d[2], d[3]) : l \in 1..MaxNoteLine, d \in NoteShapes}

InitFlow(inputs) ==
    /\ executionFlow \in {Some(q) : q \in inputs}
    /\ rendered = FALSE
    /\ jumpArrows = <<>>
    /\ bookmarks = <<>>
    /\ cmBookmarks = EmptyBag
    /\ cmLog = <<>>
    /\ MountedIdle

\* the arrow scan applied to every arrow input
InitArrows == InitFlow(SeqsUpTo(ArrowSteps, MaxSteps))

NextArrows == ExecutionFlowWatcher

SpecArrows == InitArrows /\ [][NextArrows]_vars

\* the annotation derivation applied to every annotation input
InitNotes == InitFlow(SeqsUpTo(NoteSteps, MaxSteps))

NextNotes == ExecutionFlowWatcher

SpecNotes == InitNotes /\ [][NextNotes]_vars

\* sample steps for successive updates of the executionFlow prop
UpdateSteps ==
    {BareStep(1),
     FlowStep(1, FALSE, None, Some(<<"a">>)),
     FlowStep(2, FALSE, Some(<<"E">>), Some(<<"b", LF>>)),
     FlowStep(1, TRUE, None, Some(<<"s">>))}

UpdateFlows == {None} \cup {Some(q) : q \in SeqsUpTo(UpdateSteps, MaxFlowLen)}

\* successive updates: the component is mounted, no step sequence given yet
InitUpdates ==
    /\ executionFlow = None
    /\ rendered = TRUE
    /\ jumpArrows = <<>>
    /\ bookmarks = <<>>
    /\ cmBookmarks = EmptyBag
    /\ cmLog = <<>>
    /\ MountedIdle

NextUpdates ==
    \/ \E flow \in UpdateFlows : SetExecutionFlow(flow)
    \/ ExecutionFlowWatcher

SpecUpdates == InitUpdates /\ [][NextUpdates]_vars

----------------------------------------------------------------------------
(* Properties of the jump-arrow scan *)

\* the argument of the last run of renderExecutionFlow
FlowSteps == StepsOrEmpty(executionFlow)

IsRetained(step) == ~(step.obj /\ step.skipped)

Retained(stepSeq) == SelectSeq(stepSeq, IsRetained)

ExceptionOf(step) == IF step.obj THEN step.exception ELSE None

IsThrown(e) == e # None /\ e # Some(<<>>)

\* the reference scan: the retained steps taken pairwise
RefSignificant(ns, i) ==
    \/ i > 1 /\ (ns[i].line < ns[i - 1].line \/ ns[i].line - ns[i - 1].line > 2)
    \/ i > 1 /\ IsThrown(ExceptionOf(ns[i - 1]))

RefArrow(ns, i) ==
    [fromLine |-> Some(ns[i - 1].line - 1), toLine |-> Some(ns[i].line - 1),
     throw |-> IsThrown(ExceptionOf(ns[i - 1]))]

RECURSIVE RefArrowsUpTo(_, _)
RefArrowsUpTo(ns, n) ==
    IF n = 0 THEN <<>>
    ELSE RefArrowsUpTo(ns, n - 1)
         \o (IF RefSignificant(ns, n) THEN <<RefArrow(ns, n)>> ELSE <<>>)

RefArrows(stepSeq) == RefArrowsUpTo(Retained(stepSeq), Len(Retained(stepSeq)))

\* C1: the arrow list handed to setJumpArrows equals the reference scan over
\* the non-skipped steps: an arrow for a step exactly when the previous
\* non-skipped step exists and the line goes backward or forward by more than
\* 2, or the previous non-skipped step has a truthy exception; from
\* lastLine - 1 to line - 1, exceptional iff that exception is truthy; in order.
C1_ArrowsMatchReferenceScan ==
    rendered => jumpArrows = RefArrows(FlowSteps)

\* C1 witness: a rendered sequence that mixes bare and detailed steps and
\* yields both an exceptional and a plain arrow
C1_Witness ==
    /\ rendered
    /\ \E i, j \in 1..Len(FlowSteps) : FlowSteps[i].obj /\ ~FlowSteps[j].obj
    /\ \E a, b \in 1..Len(jumpArrows) : jumpArrows[a].throw /\ ~jumpArrows[b].throw

NoExceptionAtAll(stepSeq) ==
    \A i \in 1..Len(stepSeq) : ExceptionOf(stepSeq[i]) = None

RisingByAtMost2(stepSeq) ==
    \A i \in 2..Len(stepSeq) :
        stepSeq[i].line > stepSeq[i - 1].line /\ stepSeq[i].line - stepSeq[i - 1].line <= 2

\* C2 as stated: every sequence whose steps (skipped ones included) rise by at
\* most 2 from one step to the next and carry no exception yields no arrow
C2_Original ==
    (rendered /\ RisingByAtMost2(FlowSteps) /\ NoExceptionAtAll(FlowSteps))
        => jumpArrows = <<>>

\* C2 amended: when the non-skipped steps rise by at most 2 from one to the
\* next and none of them carries a truthy exception, the arrow list is empty
C2_NoArrowsWhenRetainedStepsRise ==
    (/\ rendered
     /\ RisingByAtMost2(Retained(FlowSteps))
     /\ \A i \in 1..Len(Retained(FlowSteps)) :
            ~IsThrown(ExceptionOf(Retained(FlowSteps)[i])))
        => jumpArrows = <<>>

\* C2 witness: three retained steps, bare and detailed, rising by 1 and by 2,
\* rendered without an arrow
C2_Witness ==
    /\ rendered
    /\ Len(Retained(FlowSteps)) = 3
    /\ RisingByAtMost2(Retained(FlowSteps))
    /\ \A i \in 1..Len(FlowSteps) : ~IsThrown(ExceptionOf(FlowSteps[i]))
    /\ \E i, j \in 1..Len(FlowSteps) : FlowSteps[i].obj /\ ~FlowSteps[j].obj
    /\ jumpArrows = <<>>

\* C3: the arrow list of a sequence is the arrow list of the same sequence
\* with its skipped steps removed
C3_SkippedStepsIgnored ==
    rendered => jumpArrows = ComputeJumpArrows(Retained(FlowSteps))

\* C3 witness: a skipped step with an exception stands between two retained
\* steps and no arrow starts or ends at it
C3_Witness ==
    /\ rendered
    /\ Len(FlowSteps) = 3
    /\ IsRetained(FlowSteps[1]) /\ IsRetained(FlowSteps[3])
    /\ ~IsRetained(FlowSteps[2]) /\ IsThrown(FlowSteps[2].exception)
    /\ FlowSteps[2].line # FlowSteps[1].line /\ FlowSteps[2].line # FlowSteps[3].line
    /\ Len(jumpArrows) = 1
    /\ ~jumpArrows[1].throw

IsThrowArrow(arrow) == arrow.throw

\* the arrows owed to exceptions: one per retained step with a truthy
\* exception that has a retained successor, from its line to the successor's
RECURSIVE ThrownArrowsUpTo(_, _)
ThrownArrowsUpTo(ns, n) ==
    IF n <= 1 THEN <<>>
    ELSE ThrownArrowsUpTo(ns, n - 1)
         \o (IF IsThrown(ExceptionOf(ns[n - 1]))
             THEN <<[fromLine |-> Some(ns[n - 1].line - 1),
                     toLine |-> Some(ns[n].line - 1), throw |-> TRUE]>>
             ELSE <<>>)

\* C4: after a non-skipped step with a truthy exception the next non-skipped
\* step yields one exceptional arrow between their lines whatever the line
\* delta, and no other arrow is exceptional
C4_ExceptionForcesArrow ==
    rendered =>
        SelectSeq(jumpArrows, IsThrowArrow)
            = ThrownArrowsUpTo(Retained(FlowSteps), Len(Retained(FlowSteps)))

\* C4 witness: an exceptional arrow of delta 0 drawn across a skipped step
C4_Witness ==
    /\ rendered
    /\ Len(FlowSteps) = 3
    /\ IsRetained(FlowSteps[1]) /\ IsThrown(ExceptionOf(FlowSteps[1]))
    /\ ~IsRetained(FlowSteps[2])
    /\ IsRetained(FlowSteps[3]) /\ FlowSteps[3].line = FlowSteps[1].line
    /\ jumpArrows = <<JumpArrow(Some(FlowSteps[1].line - 1),
                                Some(FlowSteps[1].line - 1), TRUE)>>

----------------------------------------------------------------------------
(* Properties of the line-end annotations *)

Unskip(stepSeq) ==
    [i \in 1..Len(stepSeq) |->
        IF stepSeq[i].obj THEN [stepSeq[i] EXCEPT !.skipped = FALSE] ELSE stepSeq[i]]

IsDetailed(step) == step.obj

FieldOf(step, field) == IF field = "notes" THEN step.notes ELSE step.exception

HasText(v) == v # None /\ Len(v[1]) > 0

MarksAt(line, kind) ==
    {k \in 1..Len(bookmarks) :
        bookmarks[k].line = line - 1 /\ bookmarks[k].widget.kind = kind}

\* C5: a skipped detailed step contributes its notes and exception text to its
\* line's annotation exactly as if it were not skipped, and bare line numbers
\* contribute nothing: lines that only bare steps name get no bookmark
C5_SkippedStepsAnnotate ==
    (rendered /\ Len(FlowSteps) > 0) =>
        /\ bookmarks = ComputeBookmarks(Unskip(FlowSteps))
        /\ bookmarks = ComputeBookmarks(SelectSeq(FlowSteps, IsDetailed))
        /\ \A i \in 1..Len(FlowSteps) :
              (\A j \in 1..Len(FlowSteps) :
                  FlowSteps[j].line = FlowSteps[i].line => ~FlowSteps[j].obj)
                  => \A k \in 1..Len(bookmarks) : bookmarks[k].line # FlowSteps[i].line - 1
        /\ \A i \in 1..Len(FlowSteps) : \A field \in {"notes", "exception"} :
              (FlowSteps[i].obj /\ FlowSteps[i].skipped /\ HasText(FieldOf(FlowSteps[i], field)))
                  => MarksAt(FlowSteps[i].line, field) # {}

\* C5 witness: the only detailed step of a line is skipped and its notes and
\* exception are both rendered there, next to a bare step that renders nothing
C5_Witness ==
    /\ rendered
    /\ \E i, j \in 1..Len(FlowSteps) :
          /\ FlowSteps[i].obj /\ FlowSteps[i].skipped
          /\ HasText(FlowSteps[i].notes) /\ HasText(FlowSteps[i].exception)
          /\ ~FlowSteps[j].obj /\ FlowSteps[j].line # FlowSteps[i].line
          /\ Len(bookmarks) = 2
          /\ \A k \in 1..2 : bookmarks[k].line = FlowSteps[i].line - 1

\* the claim's escaping, character by character
RECURSIVE RefEscape(_)
RefEscape(text) ==
    IF text = <<>> THEN <<>>
    ELSE (CASE Head(text) = CR -> <<BS, "r">>
            [] Head(text) = LF -> <<BS, "n">>
            [] OTHER -> <<Head(text)>>) \o RefEscape(Tail(text))

Contributors(stepSeq, line, field, n) ==
    {i \in 1..n : /\ stepSeq[i].obj
                  /\ stepSeq[i].line = line
                  /\ HasText(FieldOf(stepSeq[i], field))}

\* the expected fragment of (line, field) from the first n steps
RECURSIVE RefText(_, _, _, _)
RefText(stepSeq, line, field, n) ==
    IF n = 0 THEN <<>>
    ELSE IF n \notin Contributors(stepSeq, line, field, n)
         THEN RefText(stepSeq, line, field, n - 1)
         ELSE IF Contributors(stepSeq, line, field, n - 1) = {}
              THEN RefEscape(FieldOf(stepSeq[n], field)[1])
              ELSE RefText(stepSeq, line, field, n - 1) \o <<";", " ">>
                   \o RefEscape(FieldOf(stepSeq[n], field)[1])

\* C6: per line with a detailed step and per field, one bookmark at the end of
\* line - 1 holding the escaped non-empty values in encounter order joined by
\* "; " when there is such a value, none otherwise; notes before exception
C6_OneFragmentPerFieldPerLine ==
    rendered =>
        /\ cmBookmarks = SeqToBag(bookmarks)
        /\ \A k \in 1..Len(bookmarks) :
              /\ bookmarks[k].widget.kind \in {"notes", "exception"}
              /\ \E i \in 1..Len(FlowSteps) :
                    FlowSteps[i].obj /\ FlowSteps[i].line = bookmarks[k].line + 1
        /\ \A i \in 1..Len(FlowSteps) : \A field \in {"notes", "exception"} :
              FlowSteps[i].obj =>
                LET line == FlowSteps[i].line
                    marks == MarksAt(line, field)
                IN  IF Contributors(FlowSteps, line, field, Len(FlowSteps)) = {}
                    THEN marks = {}
                    ELSE /\ Cardinality(marks) = 1
                         /\ \A k \in marks :
                               /\ bookmarks[k].ch = cmLineLength(line - 1)
                               /\ bookmarks[k].widget.text
                                    = RefText(FlowSteps, line, field, Len(FlowSteps))
        /\ \A k1, k2 \in 1..Len(bookmarks) :
              (/\ bookmarks[k1].line = bookmarks[k2].line
               /\ bookmarks[k1].widget.kind = "notes"
               /\ bookmarks[k2].widget.kind = "exception") => k1 < k2

\* C6 witness: two detailed steps of one line, apart in the sequence, whose
\* notes are joined with the line feed escaped, next to an exception fragment
C6_Witness ==
    /\ rendered
    /\ Len(FlowSteps) = 3
    /\ FlowSteps[1].line = FlowSteps[3].line /\ FlowSteps[2].line # FlowSteps[1].line
    /\ \E k \in 1..Len(bookmarks) :
          /\ bookmarks[k].widget.kind = "notes"
          /\ bookmarks[k].widget.text = <<"a", ";", " ", "b", BS, "n">>
    /\ \E k \in 1..Len(bookmarks) :
          /\ bookmarks[k].widget.kind = "exception"
          /\ bookmarks[k].widget.text = <<"E", BS, "r">>
    /\ Len(bookmarks) >= 3

----------------------------------------------------------------------------
(* Properties of successive executionFlow updates *)

\* C7: after any sequence of updates the editor holds the decorations of the
\* most recent step sequence alone: the tracked list and the bookmarks in the
\* document are those of the last run, the arrow layer is the last run's, and
\* in each run every clear() comes before every setBookmark()
C7_DecorationsOfLastUpdateOnly ==
    /\ cmBookmarks = SeqToBag(bookmarks)
    /\ rendered =>
          /\ bookmarks = ComputeBookmarks(FlowSteps)
          /\ cmBookmarks = SeqToBag(ComputeBookmarks(FlowSteps))
          /\ jumpArrows = ComputeJumpArrows(FlowSteps)
    /\ \A a, b \in 1..Len(cmLog) :
          (cmLog[a] = "setBookmark" /\ cmLog[b] = "clear") => b < a

\* C7 witness: a run that cleared the bookmarks of an earlier update and then
\* placed its own, different ones
C7_Witness ==
    /\ rendered
    /\ \E a, b \in 1..Len(cmLog) : cmLog[a] = "clear" /\ cmLog[b] = "setBookmark"
    /\ Len(bookmarks) = 3
    /\ Len(jumpArrows) = 1

\* C8: a run on an empty or undefined step sequence clears every tracked
\* bookmark, sets the arrow layer to the empty list and places no bookmark
C8_EmptyInputClearsAll ==
    [][(~rendered /\ rendered' /\ StepsOrEmpty(executionFlow) = <<>>) =>
          /\ jumpArrows' = <<>>
          /\ bookmarks' = <<>>
          /\ cmBookmarks' = EmptyBag
          /\ cmLog' = LogOf("clear", Len(bookmarks)) \o <<"setJumpArrows">>]_vars

\* C8 witness: an undefined step sequence rendered over earlier bookmarks and
\* arrows, leaving none
C8_Witness ==
    /\ rendered
    /\ executionFlow = None
    /\ Len(cmLog) = 4
    /\ cmLog[1] = "clear"
    /\ jumpArrows = <<>> /\ bookmarks = <<>> /\ cmBookmarks = EmptyBag

----------------------------------------------------------------------------
(* Properties of the connection handling *)

RECURSIVE SumConnectCalls(_)
SumConnectCalls(insts) ==
    IF insts = <<>> THEN 0 ELSE Head(insts).connectCalls + SumConnectCalls(Tail(insts))

\* connect() calls made by the component so far
ExplicitConnects == SumConnectCalls(instances)

\* some instance was created connecting, or was told to connect
ConnectionRequested ==
    \E i \in 1..Len(instances) :
        ~instances[i].noInitialConnection \/ instances[i].connectCalls > 0

\* a serviceUrl change has replaced the instance
Recreated == Len(instances) > 1

\* C9 as stated: mounted cached, nothing is requested before the first
\* text-change / language / serverOptions trigger, that trigger calls connect()
\* once and no later one does; mounted uncached, connect() is never called
C9_Original ==
    /\ (initialCached /\ ~triggered) => ~ConnectionRequested
    /\ (initialCached /\ triggered) => ExplicitConnects = 1
    /\ ~initialCached => ExplicitConnects = 0

C9_Invariant ==
    /\ (initialCached /\ ~triggered /\ ~Recreated) => ~ConnectionRequested
    /\ (initialCached /\ triggered) => ExplicitConnects <= 1
    /\ triggered => initialConnectionRequested = Some(TRUE)
    /\ ~initialCached => ExplicitConnects = 0

C9_Step ==
    /\ (initialCached /\ ~triggered /\ triggered' /\ ~Recreated)
          => (ExplicitConnects' = 1 /\ instances'[instance'].connectCalls = 1)
    /\ (~triggered /\ triggered' /\ Recreated) => ExplicitConnects' = 0
    /\ (triggered \/ Recreated) => ExplicitConnects' = ExplicitConnects
    /\ initialConnectionRequested = Some(TRUE) => initialConnectionRequested' = Some(TRUE)

\* C9 amended: mounted cached, nothing is requested before the first trigger
\* or serviceUrl change; the first trigger calls connect() on the live
\* instance once if no serviceUrl change came before it and not at all
\* otherwise; afterwards connect() is never called again and
\* initialConnectionRequested stays true; mounted uncached, connect() is never
\* called
C9_LazyConnect == []C9_Invariant /\ [][C9_Step]_vars

\* C9 witness: mounted cached, the first trigger connected the first
\* instance, and later triggers and a serviceUrl change added no connect()
C9_Witness ==
    /\ initialCached
    /\ triggered
    /\ Recreated
    /\ instances[1].connectCalls = 1
    /\ ExplicitConnects = 1
    /\ language # "C#"
    /\ initialConnectionRequested = Some(TRUE)

\* C10: a serviceUrl change destroys the current instance keeping the
\* CodeMirror surface and creates a live replacement with the new serviceUrl
\* and noInitialConnection = FALSE; initialConnectionRequested is true
\* afterwards and connect() is never called once an instance was replaced
C10_RecreateConnectsAtOnce ==
    [][/\ serviceUrl' # serviceUrl =>
            /\ ~instances'[instance].live
            /\ instances'[instance].keepCodeMirror
            /\ instance' = Len(instances) + 1
            /\ Len(instances') = Len(instances) + 1
            /\ instances'[instance'].live
            /\ instances'[instance'].serviceUrl = serviceUrl'
            /\ ~instances'[instance'].noInitialConnection
            /\ instances'[instance'].connectCalls = 0
            /\ wrapperAttached /\ wrapperAttached'
            /\ initialConnectionRequested' = Some(TRUE)
       /\ Recreated => ExplicitConnects' = ExplicitConnects]_vars

\* C10 witness: mounted cached, the serviceUrl changed before any trigger,
\* then a text change and a language change came and connect() was not called
C10_Witness ==
    /\ initialCached
    /\ Recreated
    /\ triggered
    /\ language # "C#"
    /\ ExplicitConnects = 0
    /\ ~instances[instance].noInitialConnection
    /\ instances[instance].live

\* the other instances, and the fields of the live one that setLanguage and
\* setServerOptions do not touch, are as before the step
OnlyForwarded ==
    /\ instance' = instance
    /\ Len(instances') = Len(instances)
    /\ \A i \in 1..Len(instances) : i # instance => instances'[i] = instances[i]
    /\ instances'[instance].live /\ instances[instance].live
    /\ instances'[instance].serviceUrl = instances[instance].serviceUrl
    /\ instances'[instance].noInitialConnection = instances[instance].noInitialConnection
    /\ instances'[instance].language = language'
    /\ instances'[instance].serverOptions = serverOptions'

LanguageOrServerOptionsChanged == language' # language \/ serverOptions' # serverOptions

\* C11 as stated: the connection counts as deferred whenever the component
\* was mounted cached and no trigger has been handled yet
C11_Original ==
    [][LanguageOrServerOptionsChanged =>
           /\ OnlyForwarded
           /\ instances'[instance].connectCalls =
                  instances[instance].connectCalls
                      + (IF initialCached /\ ~triggered THEN 1 ELSE 0)]_vars

\* C11 amended: a language or serverOptions change is forwarded to the live
\* instance with the new value, without destroying or recreating it and with
\* this.instance unchanged; it calls connect() on the instance once if the
\* component was mounted cached and neither a trigger nor a serviceUrl change
\* has been handled yet, and calls no connect() otherwise
C11_ForwardedToLiveInstance ==
    [][LanguageOrServerOptionsChanged =>
           /\ OnlyForwarded
           /\ instances'[instance].connectCalls =
                  instances[instance].connectCalls
                      + (IF initialCached /\ ~triggered /\ ~Recreated THEN 1 ELSE 0)]_vars

\* C11 witness: mounted cached, a language change and a serverOptions
\* change reached the first instance, which was told to connect once in all
C11_Witness ==
    /\ initialCached
    /\ ~Recreated
    /\ Watching
    /\ instance = 1
    /\ instances[1].live
    /\ instances[1].language = "Visual Basic"
    /\ instances[1].serverOptions = [xOptimize |-> "debug", xTarget |-> "IL"]
    /\ instances[1].connectCalls = 1

\* the instances created and not destroyed
LiveInstances == {i \in 1..Len(instances) : instances[i].live}

\* instances alive after the first n calls of lifecycleLog
LiveAfter(n) ==
    Cardinality({k \in 1..n : lifecycleLog[k] = "mirrorsharp"})
        - Cardinality({k \in 1..n : lifecycleLog[k] = "destroy"})

\* C12: while the component is mounted and not torn down exactly one instance
\* is live and this.instance is that instance; at every point of the
\* create/destroy call history at most one instance is alive (recreate()
\* destroys the old one before it creates the new one); once beforeDestroy
\* has run no instance is live
C12_SingleOwnedInstance ==
    /\ Watching => (instance # 0 /\ LiveInstances = {instance})
    /\ \A n \in 0..Len(lifecycleLog) : LiveAfter(n) \in {0, 1}
    /\ Cardinality(LiveInstances) = LiveAfter(Len(lifecycleLog))
    /\ destroyed => LiveInstances = {}

\* offset of the first character of a line of the document
RECURSIVE LineStart(_)
LineStart(cmLineNumber) ==
    IF cmLineNumber = 0
    THEN 0
    ELSE LineStart(cmLineNumber - 1) + cmLineLength(cmLineNumber - 1) + 1

\* position p of the document is the place the range end x names
IsPlaceOf(p, x) ==
    IF x.isPos
    THEN p = [line |-> x.line, ch |-> x.ch]
    ELSE /\ p.ch \in 0..cmLineLength(p.line)
         /\ LineStart(p.line) + p.ch = x.index

\* C13: the document never holds more than one highlight marker, and it holds
\* exactly the marker the component tracks; while highlightedRange is absent
\* it holds none; while highlightedRange is present it holds exactly one,
\* spanning the places the range names (every watcher run is one step: the
\* marker of the previous range is gone when the new one is there)
C13_SingleHighlightMarker ==
    /\ BagCardinality(cmMarks) <= 1
    /\ cmMarks = SeqToBag(currentMarker)
    /\ highlightedRange = None => cmMarks = EmptyBag
    /\ highlightedRange # None =>
           /\ BagCardinality(cmMarks) = 1
           /\ \A m \in BagToSet(cmMarks) :
                  /\ IsPlaceOf(m.from, highlightedRange[1].start)
                  /\ IsPlaceOf(m.to, highlightedRange[1].end)

\* C13 witness: the range from position (1, 1) to offset 5 is highlighted by
\* the only marker of the document, drawn from (1, 1) to (2, 0), after the
\* instance was replaced
C13_Witness ==
    /\ Recreated
    /\ highlightedRange = Some([start |-> Pos(1, 1), end |-> Offset(5)])
    /\ cmMarks = SetToBag({[from |-> [line |-> 1, ch |-> 1], to |-> [line |-> 2, ch |-> 0]]})

\* C14: the first non-skipped step draws no arrow: a sequence with at most
\* one non-skipped step yields no arrow, whatever exceptions it and the
\* skipped steps before it carry; otherwise there are at most (non-skipped
\* steps - 1) arrows, and every arrow starts at a defined line, the line - 1
\* of a non-skipped step that has a later non-skipped step at the arrow's end
C14_FirstStepDrawsNoArrow ==
    rendered =>
        LET ns == Retained(FlowSteps)
        IN  /\ Len(ns) <= 1 => jumpArrows = <<>>
            /\ Len(ns) >= 1 => Len(jumpArrows) <= Len(ns) - 1
            /\ \A a \in 1..Len(jumpArrows) :
                   /\ jumpArrows[a].fromLine # None
                   /\ \E i \in 1..Len(ns) : \E j \in (i + 1)..Len(ns) :
                          /\ jumpArrows[a].fromLine = Some(ns[i].line - 1)
                          /\ jumpArrows[a].toLine = Some(ns[j].line - 1)

\* C14 witness: a skipped step with an exception, then a first non-skipped
\* step that carries an exception itself, then one more step: one arrow
C14_Witness ==
    /\ rendered
    /\ Len(FlowSteps) = 3
    /\ ~IsRetained(FlowSteps[1]) /\ IsThrown(ExceptionOf(FlowSteps[1]))
    /\ IsRetained(FlowSteps[2]) /\ IsThrown(ExceptionOf(FlowSteps[2]))
    /\ IsRetained(FlowSteps[3])
    /\ Len(jumpArrows) = 1
    /\ jumpArrows[1].fromLine = Some(FlowSteps[2].line - 1)

\* position of the first occurrence of a call in teardownLog, 0 when absent
FirstCall(name) ==
    IF \E k \in 1..Len(teardownLog) : teardownLog[k] = name
    THEN CHOOSE k \in 1..Len(teardownLog) :
             /\ teardownLog[k] = name
             /\ \A h \in 1..(k - 1) : teardownLog[h] # name
    ELSE 0

C15_Invariant ==
    /\ FirstCall("removeChild") # 0 =>
           /\ FirstCall("instance.destroy") # 0
           /\ FirstCall("instance.destroy") < FirstCall("removeChild")
           /\ \E i \in 1..Len(instances) :
                  ~instances[i].live /\ instances[i].keepCodeMirror
    /\ (mountPc = "done" /\ ~wrapperAttached) => FirstCall("removeChild") # 0

C15_Step ==
    (~destroyed /\ destroyed' /\ instance # 0) =>
        /\ teardownLog' = <<"instance.destroy", "removeChild">>
        /\ instances[instance].live /\ ~instances'[instance].live
        /\ instances'[instance].keepCodeMirror
        /\ wrapperAttached /\ ~wrapperAttached'

\* C15: the wrapper is never removed from its parent unless instance.destroy
\* was called earlier in the same hook, and a removed wrapper means a
\* destroyed instance told to keep the CodeMirror surface; a beforeDestroy
\* that finds an instance calls instance.destroy({ keepCodeMirror: true })
\* first and removeChild(wrapper) second
C15_TeardownOrder == []C15_Invariant /\ [][C15_Step]_vars

\* C15 witness: the component was torn down after a serviceUrl change; the
\* replacement instance was destroyed keeping the surface and the wrapper
\* then left the document
C15_Witness ==
    /\ destroyed
    /\ Recreated
    /\ teardownLog = <<"instance.destroy", "removeChild">>
    /\ ~instances[instance].live
    /\ instances[instance].keepCodeMirror
    /\ ~wrapperAttached

\* C16: whenever beforeDestroy has run it found an instance (it raised no
\* TypeError and called instance.destroy), and the last call of the
\* create/destroy history is that destroy: no instance was created after
\* teardown
C16_MountPrecedesTeardown ==
    destroyed =>
        /\ FirstCall("TypeError") = 0
        /\ FirstCall("instance.destroy") # 0
        /\ lifecycleLog # <<>>
        /\ lifecycleLog[Len(lifecycleLog)] = "destroy"

\* C17: the instance a serviceUrl change creates is constructed with the new
\* serviceUrl and with the language and serverOptions the props hold at that
\* moment, the values of the last changes, which the change leaves as they are
C17_ReplacementInheritsConfiguration ==
    [][serviceUrl' # serviceUrl =>
           /\ instance' # instance
           /\ instances'[instance'].serviceUrl = serviceUrl'
           /\ instances'[instance'].language = language
           /\ instances'[instance'].serverOptions = serverOptions
           /\ language' = language
           /\ serverOptions' = serverOptions]_vars

\* C17 witness: language and serverOptions were changed on the first
\* instance, then the serviceUrl changed and the replacement was built with
\* the changed values
C17_Witness ==
    /\ Len(instances) = 2
    /\ instance = 2
    /\ instances[1].language = "Visual Basic"
    /\ instances[1].serverOptions = [xOptimize |-> "debug", xTarget |-> "IL"]
    /\ instances[2].language = "Visual Basic"
    /\ instances[2].serverOptions = [xOptimize |-> "debug", xTarget |-> "IL"]
    /\ instances[2].serviceUrl = "wss://b"

\* connections an instance was made to start: the one mirrorsharp() starts
\* itself unless noInitialConnection is set, and one per connect() call
ConnectionInitiations(i) ==
    instances[i].connectCalls + (IF instances[i].noInitialConnection THEN 0 ELSE 1)

\* C18: no instance is made to start a connection more than once, and
\* connect() is called only on an instance that was constructed with
\* noInitialConnection = TRUE
C18_ConnectsAtMostOnce ==
    \A i \in 1..Len(instances) :
        /\ ConnectionInitiations(i) <= 1
        /\ instances[i].connectCalls > 0 => instances[i].noInitialConnection

\* C18 witness: mounted cached, the first instance was told to connect once,
\* two replacements connected on creation, and triggers came after each
C18_Witness ==
    /\ Len(instances) = 3
    /\ instances[1].noInitialConnection /\ instances[1].connectCalls = 1
    /\ \A i \in 2..3 : ~instances[i].noInitialConnection /\ instances[i].connectCalls = 0
    /\ instances[2].language # instances[1].language
    /\ instances[3].language # instances[2].language

====
